---- MODULE Spec2Model ----
(***************************************************************************)
(* Quota admission, completion recording and business-window scanning of   *)
(* the browser-automation agent: connections.RateLimiter, the daily_stats  *)
(* table of storage.Database, connections.Service.SendConnectionRequest,   *)
(* messaging.Service.SendFollowUpMessage, the two loops of main.run, and   *)
(* the forward scans of TimingController.NextActionTime and                *)
(* RateLimiter.WaitUntilNextWindow.                                        *)
(*                                                                         *)
(* Specifications: Spec (the whole program), SpecStore (the counter store  *)
(* and the limiter under any caller), SpecWindow (the scans), SpecStealth  *)
(* (one call of a function of package stealth, of Config.Validate or of    *)
(* auth.Service.Login, its inputs and random draws chosen freely),         *)
(* SpecSession (the session row of SaveCookies, LoadCookies and            *)
(* InvalidateSession), SpecDelay (RateLimiter.EnforceDelay over the        *)
(* counters) and SpecShared (two sessions on one database).                *)
(*                                                                         *)
(* Time is counted in whole hours since a Monday 00:00 local time.         *)
(***************************************************************************)
EXTENDS Integers, Sequences, FiniteSets, TLC

VARIABLES
    cfg,              \* config.Config: the limits and flags the core reads
    now,              \* time.Now(), in hours since Monday 00:00
    faults,           \* storage failures injected so far
    stats,            \* table daily_stats: date -> row
    requests,         \* table connection_requests: profile_id -> row
    phase,            \* position of main.run
    todo,             \* profiles of the search result not yet iterated
    conns,            \* accepted connections not yet iterated
    submitted,        \* history: date -> connection requests submitted
    submittedInHour,  \* history: connection requests submitted in the hour of `now`
    delivered,        \* history: date -> follow-up messages sent
    contacted,        \* history: profile -> connection requests submitted to it
    messaged,         \* history: profile -> follow-up messages sent to it
    recorded,         \* history: <<kind, date>> -> successful increments
    last,             \* outcome of the last service call
    wpc,              \* position of the window scan
    wfn,              \* which scan runs
    wstart,           \* `now` of the scan (its local variable)
    wnext,            \* nextBusinessDay
    wresult,          \* instant the scan returned
    call,             \* the last call of a stealth function: inputs, draws, result
    session,          \* table session_state: the value of the row "session"
    saved,            \* history: the last SaveCookies that returned nil
    slast,            \* outcome of the last call on the session row
    sess              \* position of each of two sessions sharing the store

vars == <<cfg, now, faults, stats, requests, phase, todo, conns,
          submitted, contacted, submittedInHour, delivered, messaged, recorded, last,
          wpc, wfn, wstart, wnext, wresult, call, session, saved, slast,
          sess>>

mainVars == <<faults, stats, requests, phase, todo, conns,
              submitted, contacted, submittedInHour, delivered, messaged, recorded, last>>

windowVars == <<wpc, wfn, wstart, wnext, wresult>>

stealthVars == <<call>>

sessionVars == <<session, saved, slast>>

sharedVars == <<sess>>

----------------------------------------------------------------------------
(* Bounds of the model *)

MaxDaily == 2        \* largest daily limit a configuration draws
MaxProfiles == 2     \* profiles the search can return
MaxFaults == 1       \* storage failures in one behaviour
MaxText == 4         \* runes of a typed text
MaxAttempt == 65     \* largest attempt number passed to ExponentialBackoff

(* Program constants *)

DefaultConnectionsLimit == 50
DefaultMessagesLimit == 30
ScanLimitHours == 48
OpenHour == 9
CloseHour == 17
HoursPerDay == 24
DaysPerWeek == 7
Saturday == 5
Sunday == 6

Profiles == 1..MaxProfiles
Kinds == {"connection", "message"}

----------------------------------------------------------------------------
(* The clock: time.Now().Hour(), .Weekday(), .Format("2006-01-02") *)

Hour(t) == t % HoursPerDay
Weekday(t) == (t \div HoursPerDay) % DaysPerWeek
DateOf(t) == t \div HoursPerDay

IsBusinessHoursAt(t) ==
    IF Weekday(t) = Saturday \/ Weekday(t) = Sunday
    THEN FALSE
    ELSE Hour(t) >= OpenHour /\ Hour(t) < CloseHour

IsBusinessHours == IsBusinessHoursAt(now)

\* the instants the clock passes through: the last open hour of a Friday,
\* the two hours around the following midnight, and Saturday 10:00
Friday1600 == 4 * HoursPerDay + 16
Friday2300 == 4 * HoursPerDay + 23
Saturday0000 == 5 * HoursPerDay
Saturday1000 == 5 * HoursPerDay + 10
TimeLine == <<Friday1600, Friday2300, Saturday0000, Saturday1000>>

----------------------------------------------------------------------------
(* Configuration *)

\* the login URLs tried: none, one of a test site, one of a real site
LoginURLs == {"", "https://mock-network.example.com/login", "https://www.linkedin.com/login"}

\* url contains one of testDomains
isTestURL(url) == url = "https://mock-network.example.com/login"

\* the fields of TimingConfig, Database.Path, SafeMode and Auth.LoginURL have
\* the values of DefaultConfig here; ValidateConfigs lets them vary
ConfigSpace ==
    [DailyConnections : 0..MaxDaily,
     HourlyConnections : {1},
     DailyMessages : 1..MaxDaily,
     BusinessHoursOnly : BOOLEAN,
     DemoMode : BOOLEAN,
     SafeMode : {TRUE},
     LoginURL : {"https://mock-network.example.com/login"},
     MinDelay : {2}, MaxDelay : {8}, BetweenActions : {30},
     TypingMin : {45}, TypingMax : {120},
     ThinkMin : {500}, ThinkMax : {2000},
     DatabasePath : {"automation.db"}]

\* Validate returns nil
Validate(c) ==
    /\ ~(c.SafeMode /\ c.LoginURL /= "" /\ ~isTestURL(c.LoginURL))
    /\ ~(c.DailyConnections <= 0)
    /\ ~(c.MinDelay < 0 \/ c.MaxDelay < c.MinDelay)

\* the configuration Validate leaves behind
Validated(c) ==
    IF Validate(c) /\ c.DatabasePath = ""
    THEN [c EXCEPT !.DatabasePath = "automation.db"]
    ELSE c

----------------------------------------------------------------------------
(* Table daily_stats *)

DefaultStats ==
    [connections_sent |-> 0, messages_sent |-> 0,
     connections_limit |-> DefaultConnectionsLimit,
     messages_limit |-> DefaultMessagesLimit]

GetTodayStatsAt(st, t, ok) ==
    IF ~ok THEN [err |-> TRUE, row |-> DefaultStats]
    ELSE IF DateOf(t) \in DOMAIN st
         THEN [err |-> FALSE, row |-> st[DateOf(t)]]
         ELSE [err |-> FALSE, row |-> DefaultStats]

GetTodayStats(ok) == GetTodayStatsAt(stats, now, ok)

\* the increment lands on the most recent row instead of today's
IncrementConnectionCount_LatestRow(st, d) ==
    IF DOMAIN st /= {}
    THEN LET m == CHOOSE x \in DOMAIN st : \A y \in DOMAIN st : y <= x
         IN  [st EXCEPT ![m].connections_sent = @ + 1]
    ELSE st @@ (d :> [connections_sent |-> 1, messages_sent |-> 0,
                      connections_limit |-> DefaultConnectionsLimit,
                      messages_limit |-> DefaultMessagesLimit])

IncrementConnectionCount(st, d) ==
    IF d \in DOMAIN st
    THEN [st EXCEPT ![d].connections_sent = @ + 1]
    ELSE st @@ (d :> [connections_sent |-> 1, messages_sent |-> 0,
                      connections_limit |-> DefaultConnectionsLimit,
                      messages_limit |-> DefaultMessagesLimit])

\* INSERT OR REPLACE instead of ON CONFLICT DO UPDATE
IncrementMessageCount_Replace(st, d) ==
    [x \in DOMAIN st \cup {d} |->
        IF x = d
        THEN [connections_sent |-> 0, messages_sent |-> 1,
              connections_limit |-> DefaultConnectionsLimit,
              messages_limit |-> DefaultMessagesLimit]
        ELSE st[x]]

IncrementMessageCount(st, d) ==
    IF d \in DOMAIN st
    THEN [st EXCEPT ![d].messages_sent = @ + 1]
    ELSE st @@ (d :> [connections_sent |-> 0, messages_sent |-> 1,
                      connections_limit |-> DefaultConnectionsLimit,
                      messages_limit |-> DefaultMessagesLimit])

----------------------------------------------------------------------------
(* connections.RateLimiter *)

\* the window is tested whatever cfg.Stealth.BusinessHoursOnly says
isWithinBusinessHoursAt_FlagIgnored(t) == IsBusinessHoursAt(t)

isWithinBusinessHoursAt(t) ==
    IF ~cfg.BusinessHoursOnly THEN TRUE ELSE IsBusinessHoursAt(t)

\* > where the code has >=
CanSendConnectionOf_OffByOne(sr, t) ==
    IF sr.err THEN FALSE
    ELSE IF sr.row.connections_sent > cfg.DailyConnections THEN FALSE
    ELSE IF ~isWithinBusinessHoursAt(t) THEN FALSE
    ELSE TRUE

CanSendConnectionOf(sr, t) ==
    IF sr.err THEN FALSE
    ELSE IF sr.row.connections_sent >= cfg.DailyConnections THEN FALSE
    ELSE IF ~isWithinBusinessHoursAt(t) THEN FALSE
    ELSE TRUE

\* > where the code has >=
CanSendMessageOf_OffByOne(sr, t) ==
    IF sr.err THEN FALSE
    ELSE IF sr.row.messages_sent > cfg.DailyMessages THEN FALSE
    ELSE TRUE

CanSendMessageOf(sr, t) ==
    IF sr.err THEN FALSE
    ELSE IF sr.row.messages_sent >= cfg.DailyMessages THEN FALSE
    ELSE TRUE

CanSendConnection(ok) == CanSendConnectionOf(GetTodayStats(ok), now)
CanSendMessage(ok) == CanSendMessageOf(GetTodayStats(ok), now)

\* storage.Database.GetAutomationState: the map it returns, or the error
GetAutomationStateOf(sr) ==
    IF sr.err
    THEN [err |-> TRUE, connections_sent |-> 0, connections_limit |-> 0,
          can_send_more |-> FALSE]
    ELSE [err |-> FALSE,
          connections_sent |-> sr.row.connections_sent,
          connections_limit |-> sr.row.connections_limit,
          can_send_more |-> sr.row.connections_sent < sr.row.connections_limit]

GetAutomationState(ok) == GetAutomationStateOf(GetTodayStats(ok))

\* the subtraction returned as it is, without the test remaining < 0
GetRemainingConnectionsOf_NoClamp(sr) ==
    IF sr.err THEN 0
    ELSE cfg.DailyConnections - sr.row.connections_sent

GetRemainingConnectionsOf(sr) ==
    IF sr.err THEN 0
    ELSE LET remaining == cfg.DailyConnections - sr.row.connections_sent
         IN  IF remaining < 0 THEN 0 ELSE remaining

GetRemainingMessagesOf(sr) ==
    IF sr.err THEN 0
    ELSE LET remaining == cfg.DailyMessages - sr.row.messages_sent
         IN  IF remaining < 0 THEN 0 ELSE remaining

GetRemainingConnections(ok) == GetRemainingConnectionsOf(GetTodayStats(ok))
GetRemainingMessages(ok) == GetRemainingMessagesOf(GetTodayStats(ok))

----------------------------------------------------------------------------
(* History counters: a missing key counts as 0 *)

Count(f, k) == IF k \in DOMAIN f THEN f[k] ELSE 0
Bump(f, k) == IF k \in DOMAIN f THEN [f EXCEPT ![k] = @ + 1] ELSE f @@ (k :> 1)
Empty == <<>>

----------------------------------------------------------------------------
(* Table connection_requests; table messages is written by SaveMessage and *)
(* never read, so it carries no state here                                 *)

SaveConnectionRequest(rq, p) ==
    IF p \in DOMAIN rq
    THEN [rq EXCEPT ![p].status = "pending"]
    ELSE rq @@ (p :> [status |-> "pending", last_message_at |-> FALSE])

HasProcessedProfile(p, ok) ==
    IF ~ok THEN FALSE ELSE p \in DOMAIN requests

GetAcceptedConnections ==
    {p \in DOMAIN requests :
        requests[p].status = "accepted" /\ ~requests[p].last_message_at}

HasSentMessage(p, ok) ==
    IF ~ok \/ p \notin DOMAIN requests THEN FALSE
    ELSE requests[p].last_message_at

\* SaveMessage after its INSERT succeeded: the UPDATE's error is dropped
SaveMessage(rq, p, updOk) ==
    IF updOk /\ p \in DOMAIN rq
    THEN [rq EXCEPT ![p].last_message_at = TRUE]
    ELSE rq

----------------------------------------------------------------------------
(* Outcome of a service call *)

\* op: the call; err: it returned an error; incFailed: its Increment call
\* failed
Outcome(op, err, incFailed) == [op |-> op, err |-> err, incFailed |-> incFailed]

NoOutcome == Outcome("none", FALSE, FALSE)

ConnFaults == {"none", "has", "stats", "stats2", "save", "increment"}
MsgFaults == {"none", "get", "save", "update", "increment"}

FaultBudget(fault) ==
    /\ fault /= "none" => faults < MaxFaults
    /\ faults' = IF fault /= "none" THEN faults + 1 ELSE faults

\* the submissions of the current hour, adv hours from now
HourCount(adv) == IF adv = 0 THEN submittedInHour ELSE 0

\* a call takes adv hours: it may run across the turn of the hour
Elapse(adv) ==
    /\ adv = 0 \/ now + adv \in {TimeLine[i] : i \in 1..Len(TimeLine)}
    /\ now' = now + adv

----------------------------------------------------------------------------
(* connections.Service.SendConnectionRequest                               *)
(* statsOk, saveOk, incOk: whether the three storage calls succeed;        *)
(* pageOk: whether every page step up to and including the submission      *)
(* succeeds (Navigate, WaitLoad, findConnectButton, ClickElement,          *)
(* submitConnectionRequest: a failure of any of them returns an error      *)
(* before the first store write); adv: hours that pass between the         *)
(* admission check and the submission                                      *)

SendConnectionRequest(p, statsOk, pageOk, saveOk, incOk, adv) ==
    LET t2 == now + adv
        d2 == DateOf(t2)
    IN  IF cfg.DemoMode
        THEN /\ last' = Outcome("SendConnectionRequest", FALSE, FALSE)
             /\ submittedInHour' = HourCount(adv)
             /\ UNCHANGED <<stats, requests, submitted, contacted, recorded>>
        ELSE IF ~CanSendConnection(statsOk)
        THEN /\ last' = Outcome("SendConnectionRequest", TRUE, FALSE)
             /\ submittedInHour' = HourCount(adv)
             /\ UNCHANGED <<stats, requests, submitted, contacted, recorded>>
        ELSE IF ~pageOk
        THEN /\ last' = Outcome("SendConnectionRequest", TRUE, FALSE)
             /\ submittedInHour' = HourCount(adv)
             /\ UNCHANGED <<stats, requests, submitted, contacted, recorded>>
        ELSE /\ submitted' = Bump(submitted, d2)
             /\ contacted' = Bump(contacted, p)
             /\ submittedInHour' = HourCount(adv) + 1
             /\ IF ~saveOk
                THEN /\ last' = Outcome("SendConnectionRequest", TRUE, FALSE)
                     /\ UNCHANGED <<stats, requests, recorded>>
                ELSE /\ requests' = SaveConnectionRequest(requests, p)
                     /\ IF incOk
                        THEN /\ stats' = IncrementConnectionCount(stats, d2)
                             /\ recorded' = Bump(recorded, <<"connection", d2>>)
                        ELSE UNCHANGED <<stats, recorded>>
                     /\ last' = Outcome("SendConnectionRequest", FALSE, ~incOk)

----------------------------------------------------------------------------
(* messaging.Service.SendFollowUpMessage                                   *)
(* pageOk: whether every step up to and including sendMessage succeeds     *)
(* (RenderForConnection, Navigate, WaitLoad, findMessageBox, ClickElement, *)
(* TypeIntoElement, sendMessage)                                           *)

SendFollowUpMessage(p, pageOk, saveOk, updOk, incOk, adv) ==
    LET t2 == now + adv
        d2 == DateOf(t2)
    IN  IF cfg.DemoMode
        THEN /\ last' = Outcome("SendFollowUpMessage", FALSE, FALSE)
             /\ UNCHANGED <<stats, requests, delivered, messaged, recorded>>
        ELSE IF ~pageOk
        THEN /\ last' = Outcome("SendFollowUpMessage", TRUE, FALSE)
             /\ UNCHANGED <<stats, requests, delivered, messaged, recorded>>
        ELSE /\ delivered' = Bump(delivered, d2)
             /\ messaged' = Bump(messaged, p)
             /\ IF ~saveOk
                THEN /\ last' = Outcome("SendFollowUpMessage", TRUE, FALSE)
                     /\ UNCHANGED <<stats, requests, recorded>>
                ELSE /\ requests' = SaveMessage(requests, p, updOk)
                     /\ IF incOk
                        THEN /\ stats' = IncrementMessageCount(stats, d2)
                             /\ recorded' = Bump(recorded, <<"message", d2>>)
                        ELSE UNCHANGED <<stats, recorded>>
                     /\ last' = Outcome("SendFollowUpMessage", FALSE, ~incOk)

----------------------------------------------------------------------------
(* main.run *)

\* the element a range loop visits next: the lists are in profile order
First(S) == CHOOSE x \in S : \A y \in S : x <= y

\* run, before the first loop: the search returns every profile
StartRun ==
    /\ phase = "stopped"
    /\ ~cfg.DemoMode
    /\ phase' = "connections"
    /\ todo' = Profiles
    /\ UNCHANGED <<cfg, now, faults, stats, requests, conns,
                   submitted, contacted, submittedInHour, delivered, messaged, recorded, last>>
    /\ UNCHANGED windowVars
    /\ UNCHANGED stealthVars
    /\ UNCHANGED sessionVars
    /\ UNCHANGED sharedVars

\* run with cfg.DemoMode: runDemo only logs
RunDemo ==
    /\ phase = "stopped"
    /\ cfg.DemoMode
    /\ last' = Outcome("runDemo", FALSE, FALSE)
    /\ UNCHANGED <<cfg, now, faults, stats, requests, phase,
                   todo, conns, submitted, contacted, submittedInHour, delivered, messaged, recorded>>
    /\ UNCHANGED windowVars
    /\ UNCHANGED stealthVars
    /\ UNCHANGED sessionVars
    /\ UNCHANGED sharedVars

\* one iteration of the connection loop
ConnectionIter(p) ==
    /\ phase = "connections"
    /\ todo /= {}
    /\ p = First(todo)
    /\ \E fault \in ConnFaults, pageOk \in BOOLEAN, adv \in 0..1 :
          /\ FaultBudget(fault)
          /\ Elapse(adv)
          /\ IF HasProcessedProfile(p, fault /= "has")
             THEN /\ todo' = todo \ {p}
                  /\ submittedInHour' = HourCount(adv)
                  /\ UNCHANGED <<phase, stats, requests, submitted, contacted,
                                 recorded, last>>
             ELSE IF ~CanSendConnection(fault /= "stats")
             THEN /\ phase' = "accepted"
                  /\ todo' = {}
                  /\ submittedInHour' = HourCount(adv)
                  /\ UNCHANGED <<stats, requests, submitted, contacted, recorded, last>>
             ELSE /\ SendConnectionRequest(p, fault /= "stats2", pageOk,
                                           fault /= "save",
                                           fault /= "increment", adv)
                  /\ todo' = todo \ {p}
                  /\ UNCHANGED phase
    /\ UNCHANGED <<cfg, conns, delivered, messaged>>
    /\ UNCHANGED windowVars
    /\ UNCHANGED stealthVars
    /\ UNCHANGED sessionVars
    /\ UNCHANGED sharedVars

\* the connection loop ran out of profiles
ConnectionsDone ==
    /\ phase = "connections"
    /\ todo = {}
    /\ phase' = "accepted"
    /\ UNCHANGED <<cfg, now, faults, stats, requests, todo,
                   conns, submitted, contacted, submittedInHour, delivered, messaged, recorded, last>>
    /\ UNCHANGED windowVars
    /\ UNCHANGED stealthVars
    /\ UNCHANGED sessionVars
    /\ UNCHANGED sharedVars

\* db.GetAcceptedConnections between the loops
LoadAccepted ==
    /\ phase = "accepted"
    /\ \E fault \in {"none", "query"} :
          /\ FaultBudget(fault)
          /\ IF fault = "query"
             THEN phase' = "stopped" /\ conns' = {}
             ELSE phase' = "messages" /\ conns' = GetAcceptedConnections
    /\ UNCHANGED <<cfg, now, stats, requests, todo,
                   submitted, contacted, submittedInHour, delivered, messaged, recorded, last>>
    /\ UNCHANGED windowVars
    /\ UNCHANGED stealthVars
    /\ UNCHANGED sessionVars
    /\ UNCHANGED sharedVars

\* one iteration of the message loop
MessageIter(p) ==
    /\ phase = "messages"
    /\ conns /= {}
    /\ p = First(conns)
    /\ \E fault \in MsgFaults, pageOk \in BOOLEAN, adv \in 0..1 :
          /\ FaultBudget(fault)
          /\ Elapse(adv)
          /\ submittedInHour' = HourCount(adv)
          /\ IF HasSentMessage(p, fault /= "get")
             THEN UNCHANGED <<stats, requests, delivered, messaged, recorded, last>>
             ELSE SendFollowUpMessage(p, pageOk, fault /= "save",
                                      fault /= "update", fault /= "increment", adv)
    /\ conns' = conns \ {p}
    /\ UNCHANGED <<cfg, phase, todo, submitted, contacted>>
    /\ UNCHANGED windowVars
    /\ UNCHANGED stealthVars
    /\ UNCHANGED sessionVars
    /\ UNCHANGED sharedVars

\* the message loop ran out of connections: run returns
MessagesDone ==
    /\ phase = "messages"
    /\ conns = {}
    /\ phase' = "stopped"
    /\ UNCHANGED <<cfg, now, faults, stats, requests, todo,
                   conns, submitted, contacted, submittedInHour, delivered, messaged, recorded, last>>
    /\ UNCHANGED windowVars
    /\ UNCHANGED stealthVars
    /\ UNCHANGED sessionVars
    /\ UNCHANGED sharedVars

\* ctx.Done() between two iterations, or the process is stopped
Interrupt ==
    /\ phase /= "stopped"
    /\ phase' = "stopped"
    /\ todo' = {}
    /\ conns' = {}
    /\ UNCHANGED <<cfg, now, faults, stats, requests,
                   submitted, contacted, submittedInHour, delivered, messaged, recorded, last>>
    /\ UNCHANGED windowVars
    /\ UNCHANGED stealthVars
    /\ UNCHANGED sessionVars
    /\ UNCHANGED sharedVars

----------------------------------------------------------------------------
(* Environment *)

\* the clock moves to the next instant (the sleeps between actions, idle
\* time between runs)
Tick ==
    /\ \E i \in 1..(Len(TimeLine) - 1) :
          /\ now = TimeLine[i]
          /\ now' = TimeLine[i + 1]
    /\ submittedInHour' = 0
    /\ UNCHANGED <<cfg, faults, stats, requests, phase, todo, conns,
                   submitted, contacted, delivered, messaged, recorded, last>>
    /\ UNCHANGED windowVars
    /\ UNCHANGED stealthVars
    /\ UNCHANGED sessionVars
    /\ UNCHANGED sharedVars

\* the invited person accepts, between two runs: column status of
\* connection_requests
MarkAccepted(p) ==
    /\ phase = "stopped"
    /\ p \in DOMAIN requests
    /\ requests[p].status = "pending"
    /\ requests' = [requests EXCEPT ![p].status = "accepted"]
    /\ UNCHANGED <<cfg, now, faults, stats, phase, todo, conns,
                   submitted, contacted, submittedInHour, delivered, messaged, recorded, last>>
    /\ UNCHANGED windowVars
    /\ UNCHANGED stealthVars
    /\ UNCHANGED sessionVars
    /\ UNCHANGED sharedVars

----------------------------------------------------------------------------
(* The specification of the admission machine *)

\* no stealth function has been called
NoCall == [fn |-> "none"]

\* table session_state has no row "session"; InvalidateSession leaves the
\* row with the empty string
\* a value of the column: empty: it is the empty string; doc: the JSON
\* document it holds otherwise
EmptyString ==
    [empty |-> TRUE, doc |-> [Cookies |-> <<>>, LastActivity |-> 0, Valid |-> FALSE]]
NoRow == [row |-> FALSE, value |-> EmptyString]
Invalidated == [row |-> TRUE, value |-> EmptyString]

\* no SaveCookies has returned nil yet
NoSave == [some |-> FALSE, cookies |-> <<>>, at |-> 0, invalidated |-> FALSE]

\* at, since: the clock and the last save when the call was made
NoSessionCall ==
    [op |-> "none", storeErr |-> FALSE, err |-> FALSE, cookies |-> <<>>,
     at |-> 0, since |-> NoSave]

\* the two sessions of a shared store, between two calls
Sessions == 1..2

SessionIdle ==
    /\ session = NoRow
    /\ saved = NoSave
    /\ slast = NoSessionCall
    /\ sess = [i \in Sessions |-> "idle"]

WindowIdle ==
    /\ wpc = "idle"
    /\ wfn = "none"
    /\ wstart = 0
    /\ wnext = 0
    /\ wresult = 0

Init ==
    /\ cfg \in {c \in ConfigSpace : Validate(c)}
    /\ now = TimeLine[1]
    /\ faults = 0
    /\ stats = Empty
    /\ requests = Empty
    /\ phase = "stopped"
    /\ todo = {}
    /\ conns = {}
    /\ submitted = Empty
    /\ contacted = Empty
    /\ submittedInHour = 0
    /\ delivered = Empty
    /\ messaged = Empty
    /\ recorded = Empty
    /\ last = NoOutcome
    /\ WindowIdle
    /\ call = NoCall
    /\ SessionIdle

Next ==
    \/ StartRun
    \/ RunDemo
    \/ \E p \in Profiles : ConnectionIter(p)
    \/ ConnectionsDone
    \/ LoadAccepted
    \/ \E p \in Profiles : MessageIter(p)
    \/ MessagesDone
    \/ Interrupt
    \/ Tick
    \/ \E p \in Profiles : MarkAccepted(p)

Spec == Init /\ [][Next]_vars

----------------------------------------------------------------------------
(* The forward scans for the next business window.                         *)
(* config.IsBusinessHours() takes no argument: each loop test reads        *)
(* time.Now(), that is `now`, and not the instant the loop has stepped to. *)

\* BetweenActionsDelay is a number of seconds: in whole hours it adds 0,
\* or 1 when it crosses the hour
DelayHours == {0, 1}

\* TimingController.NextActionTime(cfg.Stealth.BusinessHoursOnly), up to
\* the loop
CallNextActionTime ==
    /\ wpc = "idle"
    /\ wfn' = "NextActionTime"
    /\ wstart' = now
    /\ IF ~cfg.BusinessHoursOnly
       THEN \E d \in DelayHours :
               /\ wresult' = now + d
               /\ wnext' = wnext
               /\ wpc' = "done"
       ELSE IF ~IsBusinessHours
       THEN /\ wnext' = now
            /\ wresult' = wresult
            /\ wpc' = "scan"
       ELSE \E d \in DelayHours :
               /\ wresult' = now + d
               /\ wnext' = wnext
               /\ wpc' = "done"
    /\ UNCHANGED <<cfg, now>>
    /\ UNCHANGED mainVars
    /\ UNCHANGED stealthVars
    /\ UNCHANGED sessionVars
    /\ UNCHANGED sharedVars

\* one iteration of the loop of NextActionTime
ScanNextActionTime ==
    /\ wpc = "scan"
    /\ wfn = "NextActionTime"
    /\ wnext' = wnext + 1
    /\ IF IsBusinessHours
       THEN wpc' = "done" /\ wresult' = wnext'
       ELSE IF wnext' - wstart > ScanLimitHours
       THEN wpc' = "done" /\ wresult' = wnext'
       ELSE wpc' = "scan" /\ wresult' = wresult
    /\ UNCHANGED <<cfg, now, wfn, wstart>>
    /\ UNCHANGED mainVars
    /\ UNCHANGED stealthVars
    /\ UNCHANGED sessionVars
    /\ UNCHANGED sharedVars

\* RateLimiter.WaitUntilNextWindow, up to the loop; wresult is now plus the
\* returned duration
CallWaitUntilNextWindow ==
    /\ wpc = "idle"
    /\ wfn' = "WaitUntilNextWindow"
    /\ wstart' = now
    /\ IF cfg.BusinessHoursOnly /\ ~IsBusinessHours
       THEN /\ wnext' = now
            /\ wresult' = wresult
            /\ wpc' = "scan"
       ELSE /\ wresult' = (DateOf(now) + 1) * HoursPerDay
            /\ wnext' = wnext
            /\ wpc' = "done"
    /\ UNCHANGED <<cfg, now>>
    /\ UNCHANGED mainVars
    /\ UNCHANGED stealthVars
    /\ UNCHANGED sessionVars
    /\ UNCHANGED sharedVars

\* one test of the loop condition of WaitUntilNextWindow and, when it
\* holds, the loop body
ScanWaitUntilNextWindow ==
    /\ wpc = "scan"
    /\ wfn = "WaitUntilNextWindow"
    /\ IF IsBusinessHours
       THEN /\ wpc' = "done"
            /\ wresult' = wnext
            /\ wnext' = wnext
       ELSE /\ wnext' = wnext + 1
            /\ IF wnext' - wstart > ScanLimitHours
               THEN wpc' = "done" /\ wresult' = wnext'
               ELSE wpc' = "scan" /\ wresult' = wresult
    /\ UNCHANGED <<cfg, now, wfn, wstart>>
    /\ UNCHANGED mainVars
    /\ UNCHANGED stealthVars
    /\ UNCHANGED sessionVars
    /\ UNCHANGED sharedVars

HoursPerWeek == HoursPerDay * DaysPerWeek

WindowConfigs ==
    {c \in ConfigSpace :
        /\ Validate(c)
        /\ c.DailyConnections = 1
        /\ c.DailyMessages = 1
        /\ c.HourlyConnections = 1
        /\ ~c.DemoMode}

InitWindow ==
    /\ cfg \in WindowConfigs
    /\ now \in 0..(HoursPerWeek - 1)
    /\ faults = 0
    /\ stats = Empty
    /\ requests = Empty
    /\ phase = "stopped"
    /\ todo = {}
    /\ conns = {}
    /\ submitted = Empty
    /\ contacted = Empty
    /\ submittedInHour = 0
    /\ delivered = Empty
    /\ messaged = Empty
    /\ recorded = Empty
    /\ last = NoOutcome
    /\ WindowIdle
    /\ call = NoCall
    /\ SessionIdle

NextWindow ==
    \/ CallNextActionTime
    \/ ScanNextActionTime
    \/ CallWaitUntilNextWindow
    \/ ScanWaitUntilNextWindow

SpecWindow == InitWindow /\ [][NextWindow]_vars

----------------------------------------------------------------------------
(* Vocabulary of the properties *)

SentOn(st, k, d) ==
    IF d \notin DOMAIN st THEN 0
    ELSE IF k = "connection" THEN st[d].connections_sent
    ELSE st[d].messages_sent

SentToday(k) == SentOn(stats, k, DateOf(now))

Limit(k) == IF k = "connection" THEN cfg.DailyConnections ELSE cfg.DailyMessages

Other(k) == IF k = "connection" THEN "message" ELSE "connection"

CanPerform(k, ok) ==
    IF k = "connection" THEN CanSendConnection(ok) ELSE CanSendMessage(ok)

\* CanPerform on a given store and clock
CanPerformAt(k, st, t, ok) ==
    IF k = "connection"
    THEN CanSendConnectionOf(GetTodayStatsAt(st, t, ok), t)
    ELSE CanSendMessageOf(GetTodayStatsAt(st, t, ok), t)

\* CanPerform with today's count of kind k2 replaced by n
CanPerformWith(k, k2, n) ==
    LET row == GetTodayStats(TRUE).row
        alt == IF k2 = "connection"
               THEN [row EXCEPT !.connections_sent = n]
               ELSE [row EXCEPT !.messages_sent = n]
        sr == [err |-> FALSE, row |-> alt]
    IN  IF k = "connection"
        THEN CanSendConnectionOf(sr, now)
        ELSE CanSendMessageOf(sr, now)

\* the business-hours gate of kind k is open: only connections have one
GateOpen(k) == IF k = "connection" THEN isWithinBusinessHoursAt(now) ELSE TRUE

----------------------------------------------------------------------------
(* The counter store and the limiter under any caller: the two increments  *)
(* of storage.Database, each succeeding or failing, in any order and at    *)
(* any time of the clock. CanSendConnection and CanSendMessage only read:  *)
(* the properties evaluate them in every state.                            *)

\* db.IncrementConnectionCount() by any caller
CallIncrementConnectionCount ==
    /\ SentToday("connection") <= MaxDaily
    /\ \E ok \in BOOLEAN :
          IF ok
          THEN /\ stats' = IncrementConnectionCount(stats, DateOf(now))
               /\ recorded' = Bump(recorded, <<"connection", DateOf(now)>>)
               /\ last' = Outcome("IncrementConnectionCount", FALSE, FALSE)
          ELSE /\ last' = Outcome("IncrementConnectionCount", TRUE, TRUE)
               /\ UNCHANGED <<stats, recorded>>
    /\ UNCHANGED <<cfg, now, faults, requests, phase, todo, conns,
                   submitted, contacted, submittedInHour, delivered, messaged>>
    /\ UNCHANGED windowVars
    /\ UNCHANGED stealthVars
    /\ UNCHANGED sessionVars
    /\ UNCHANGED sharedVars

\* db.IncrementMessageCount() by any caller
CallIncrementMessageCount ==
    /\ SentToday("message") <= MaxDaily
    /\ \E ok \in BOOLEAN :
          IF ok
          THEN /\ stats' = IncrementMessageCount(stats, DateOf(now))
               /\ recorded' = Bump(recorded, <<"message", DateOf(now)>>)
               /\ last' = Outcome("IncrementMessageCount", FALSE, FALSE)
          ELSE /\ last' = Outcome("IncrementMessageCount", TRUE, TRUE)
               /\ UNCHANGED <<stats, recorded>>
    /\ UNCHANGED <<cfg, now, faults, requests, phase, todo, conns,
                   submitted, contacted, submittedInHour, delivered, messaged>>
    /\ UNCHANGED windowVars
    /\ UNCHANGED stealthVars
    /\ UNCHANGED sessionVars
    /\ UNCHANGED sharedVars

NextStore ==
    \/ CallIncrementConnectionCount
    \/ CallIncrementMessageCount
    \/ Tick

SpecStore == Init /\ [][NextStore]_vars

----------------------------------------------------------------------------
(* stealth.TypingSimulator: the keystrokes TypeIntoElement emits.          *)
(* A text is a sequence of runes; len(text) counts its UTF-8 bytes and     *)
(* `for i, char := range text` gives i the byte offset of each rune.       *)

\* the runes of the texts: two of one byte ("a" is one of typoChars, "x"
\* is not) and one of two bytes
Runes == {"a", "x", "U+00E9"}

\* bytes of the UTF-8 encoding of a rune
RuneLen(c) == IF c = "U+00E9" THEN 2 ELSE 1

Texts == UNION {[1..n -> Runes] : n \in 0..MaxText}

RECURSIVE ByteOffset(_, _)
\* the byte offset of the k-th rune of text (k = Len(text) + 1: len(text))
ByteOffset(text, k) ==
    IF k = 1 THEN 0 ELSE ByteOffset(text, k - 1) + RuneLen(text[k - 1])

ByteLen(text) == ByteOffset(text, Len(text) + 1)

typoChars == <<"a", "e", "i", "o", "u", "t", "s", "r", "n">>

\* the values at the two ends of the range of rand.Intn(n), n > 0
IntnEnds(n) == {0, n - 1}

\* the two draws after a character of typeRealistic: Float64() < 0.05, and
\* Intn(800) when it is
NoPause == [hit |-> FALSE, r |-> 0]
PauseDraws == {NoPause} \cup {[hit |-> TRUE, r |-> r] : r \in IntnEnds(800)}

\* one keystroke: element.Input(char), or element.Type(Backspace) when
\* isCorrection; think: the extra pause slept after it, in ms (0: none);
\* recognition: the recognition delay slept after it, in ms (0: none)
Key(c, think) ==
    [char |-> c, isCorrection |-> FALSE, think |-> think, recognition |-> 0]
Backspace ==
    [char |-> "", isCorrection |-> TRUE, think |-> 0, recognition |-> 0]

\* the wrong character of a typo; recDraw: the draw Intn(400)
WrongKey(c, recDraw) ==
    [char |-> c, isCorrection |-> FALSE, think |-> 0,
     recognition |-> 200 + recDraw]

typeRealistic(text, pauses) ==
    [k \in 1..Len(text) |->
        Key(text[k], IF pauses[k].hit THEN 200 + pauses[k].r ELSE 0)]

RECURSIVE typoLoop(_, _, _, _, _)
\* the loop of typeWithTypo from the k-th rune on
typoLoop(text, k, typoPosition, typoChar, recDraw) ==
    IF k > Len(text) THEN <<>>
    ELSE (IF ByteOffset(text, k) = typoPosition
          THEN <<WrongKey(typoChar, recDraw), Backspace>>
          ELSE <<>>)
         \o <<Key(text[k], 0)>>
         \o typoLoop(text, k + 1, typoPosition, typoChar, recDraw)

\* the wrong character is left in place: no Backspace
typeWithTypo_NoBackspace(text, posDraw, charDraw, recDraw, pauses) ==
    IF ByteLen(text) < 3 THEN typeRealistic(text, pauses)
    ELSE [k \in 1..(Len(text) + 1) |->
            IF k = 1 THEN Key(typoChars[charDraw + 1], 0)
            ELSE Key(text[k - 1], 0)]

\* posDraw: Intn(len(text)-2); charDraw: Intn(len(typoChars)); recDraw:
\* Intn(400)
typeWithTypo(text, posDraw, charDraw, recDraw, pauses) ==
    IF ByteLen(text) < 3 THEN typeRealistic(text, pauses)
    ELSE typoLoop(text, 1, 1 + posDraw, typoChars[charDraw + 1], recDraw)

\* typo: the draw Float64() < 0.15
TypeIntoElement(text, humanLike, typo, posDraw, charDraw, recDraw, pauses) ==
    IF ~humanLike THEN [k \in 1..Len(text) |-> Key(text[k], 0)]
    ELSE IF typo THEN typeWithTypo(text, posDraw, charDraw, recDraw, pauses)
    ELSE typeRealistic(text, pauses)

\* the draws a call consumes; a draw it does not consume is fixed
TypingDraws(text, humanLike, typo) ==
    LET detour == humanLike /\ typo /\ ByteLen(text) >= 3
        plain == humanLike /\ ~detour
    IN  [posDraw : IF detour THEN 0..(ByteLen(text) - 3) ELSE {0},
         charDraw : IF detour THEN 0..(Len(typoChars) - 1) ELSE {0},
         recDraw : IF detour THEN IntnEnds(400) ELSE {0},
         pauses : IF plain THEN [1..Len(text) -> PauseDraws]
                  ELSE {[k \in 1..Len(text) |-> NoPause]}]

CallTypeIntoElement ==
    /\ call = NoCall
    /\ \E text \in Texts, humanLike \in BOOLEAN, typo \in BOOLEAN :
          \E d \in TypingDraws(text, humanLike, typo) :
             call' = [fn |-> "TypeIntoElement",
                      text |-> text,
                      humanLike |-> humanLike,
                      typo |-> typo,
                      plan |-> TypeIntoElement(text, humanLike, typo,
                                               d.posDraw, d.charDraw,
                                               d.recDraw, d.pauses)]
    /\ UNCHANGED <<cfg, now>>
    /\ UNCHANGED mainVars
    /\ UNCHANGED windowVars
    /\ UNCHANGED sessionVars
    /\ UNCHANGED sharedVars

RECURSIVE Replay(_)
\* what the input field holds after the keystrokes of plan
Replay(plan) ==
    IF plan = <<>> THEN <<>>
    ELSE LET before == Replay(SubSeq(plan, 1, Len(plan) - 1))
             e == plan[Len(plan)]
         IN  IF e.isCorrection
             THEN (IF before = <<>> THEN <<>>
                   ELSE SubSeq(before, 1, Len(before) - 1))
             ELSE Append(before, e.char)

----------------------------------------------------------------------------
(* Fixed-width integers. A time.Duration is an int64 of nanoseconds: a     *)
(* word is a function from 1..n to bytes, least significant first, in      *)
(* two's complement; n = WordBytes for int64, n = WideBytes for values     *)
(* that must not wrap. Every operator returns its word as a tuple.         *)

Byte == 2^8
WordBytes == 64 \div 8
WideBytes == 2 * WordBytes

\* the word of n bytes holding v, 0 <= v < 2^31
FromNat(v, n) ==
    [i \in 1..n |-> IF i <= 4 THEN (v \div Byte^(i - 1)) % Byte ELSE 0] \o <<>>

RECURSIVE CarryAdd(_, _, _)
\* the carry out of byte i of x + y
CarryAdd(x, y, i) ==
    IF i = 0 THEN 0 ELSE (x[i] + y[i] + CarryAdd(x, y, i - 1)) \div Byte

\* x + y, wrapping
Add(x, y) ==
    [i \in DOMAIN x |-> (x[i] + y[i] + CarryAdd(x, y, i - 1)) % Byte] \o <<>>

RECURSIVE Column(_, _, _, _)
\* the sum of x[i] * y[k+1-i] for i in 1..j
Column(x, y, k, j) ==
    IF j = 0 THEN 0 ELSE x[j] * y[k + 1 - j] + Column(x, y, k, j - 1)

RECURSIVE CarryMul(_, _, _)
\* the carry out of byte k of x * y
CarryMul(x, y, k) ==
    IF k = 0 THEN 0
    ELSE (Column(x, y, k, k) + CarryMul(x, y, k - 1)) \div Byte

\* x * y, wrapping
Mul(x, y) ==
    [k \in DOMAIN x |->
        (Column(x, y, k, k) + CarryMul(x, y, k - 1)) % Byte] \o <<>>

\* x << k, wrapping: byte i takes the low bits of byte i - k \div 8 and the
\* high bits of the byte below it; a shift by the width or more gives 0
Shl(x, k) ==
    LET q == k \div 8
        f == 2^(k % 8)
        at(j) == IF j >= 1 THEN x[j] ELSE 0
    IN  [i \in DOMAIN x |->
            (((at(i - q) * f) % Byte) + ((at(i - q - 1) * f) \div Byte)) % Byte] \o <<>>

IsNeg(x) == x[Len(x)] >= Byte \div 2

RECURSIVE UnsignedLess(_, _, _)
\* x < y on the bytes 1..i, read as unsigned
UnsignedLess(x, y, i) ==
    IF i = 0 THEN FALSE
    ELSE IF x[i] /= y[i] THEN x[i] < y[i]
    ELSE UnsignedLess(x, y, i - 1)

\* x < y, signed
Less(x, y) ==
    IF IsNeg(x) /= IsNeg(y) THEN IsNeg(x) ELSE UnsignedLess(x, y, Len(x))

\* the word of n bytes with the value of x (n >= Len(x)): sign extension
Widen(x, n) ==
    [i \in 1..n |-> IF i <= Len(x) THEN x[i]
                    ELSE IF IsNeg(x) THEN Byte - 1 ELSE 0] \o <<>>

\* the low n bytes of x
Narrow(x, n) == SubSeq(x, 1, n)

Millisecond(n) == FromNat(1000000, n)
Second(n) == FromNat(1000000000, n)
Seconds(v, n) == Mul(FromNat(v, n), Second(n))
MaxInt64 ==
    [i \in 1..WordBytes |->
        IF i = WordBytes THEN Byte \div 2 - 1 ELSE Byte - 1] \o <<>>

----------------------------------------------------------------------------
(* stealth.TimingController.ExponentialBackoff(attempt, maxDelay)          *)

\* the deterministic term, computed in words of n bytes
BackoffTerm(attempt, maxDelay, n) ==
    LET base == Second(n)
        delay == Mul(Shl(FromNat(1, n), attempt), base)
    IN  IF Less(maxDelay, delay) THEN maxDelay ELSE delay

\* r: the draw Intn(1000)
ExponentialBackoff(attempt, maxDelay, r) ==
    LET jitter == Mul(FromNat(r, WordBytes), Millisecond(WordBytes))
    IN  Add(BackoffTerm(attempt, maxDelay, WordBytes), jitter)

\* the values of maxDelay tried: 0, 30 s, an hour, the largest Duration
MaxDelays ==
    {FromNat(0, WordBytes), Seconds(30, WordBytes), Seconds(3600, WordBytes),
     MaxInt64}

CallExponentialBackoff ==
    /\ call = NoCall
    /\ \E attempt \in 0..MaxAttempt, maxDelay \in MaxDelays, r \in IntnEnds(1000) :
          call' = [fn |-> "ExponentialBackoff",
                   attempt |-> attempt,
                   maxDelay |-> maxDelay,
                   term |-> BackoffTerm(attempt, maxDelay, WordBytes),
                   termNext |-> BackoffTerm(attempt + 1, maxDelay, WordBytes),
                   result |-> ExponentialBackoff(attempt, maxDelay, r)]
    /\ UNCHANGED <<cfg, now>>
    /\ UNCHANGED mainVars
    /\ UNCHANGED windowVars
    /\ UNCHANGED sessionVars
    /\ UNCHANGED sharedVars

----------------------------------------------------------------------------
(* stealth.MouseController: cubicBezier, generateBezierPath and the        *)
(* targets moveWithBezier passes to page.Mouse.Move.                       *)
(* A float64 is modelled by an exact fraction: coordinates are counted in  *)
(* tenths of a unit, a parameter t is a fraction n/d, and a point of the   *)
(* curve is the pair of numerators X, Y over the denominator den = d^3.    *)
(* The cases the properties are about (t = 0, t = 1, and t = 1/2 on whole  *)
(* coordinates) are computed without rounding in float64 as well.          *)

Tenths == 10
Pt(x, y) == [X |-> x, Y |-> y, den |-> 1]
Frac(n, d) == [n |-> n, d |-> d]

\* p and q are the same point
SamePoint(p, q) == p.X * q.den = q.X * p.den /\ p.Y * q.den = q.Y * p.den

cubicBezier(t, x0, y0, x1, y1, x2, y2, x3, y3) ==
    LET u == t.d - t.n
        tt == t.n * t.n
        uu == u * u
        uuu == uu * u
        ttt == tt * t.n
    IN  [X |-> uuu * x0 + 3 * uu * t.n * x1 + 3 * u * tt * x2 + ttt * x3,
         Y |-> uuu * y0 + 3 * uu * t.n * y1 + 3 * u * tt * y2 + ttt * y3,
         den |-> t.d * t.d * t.d]

\* the control points tried, in units: the four collinear points of
\* TestCubicBezier and one off the line
ControlPoints == {<<0, 0>>, <<33, 33>>, <<66, 66>>, <<100, 100>>, <<-20, 7>>}

CallCubicBezier ==
    /\ call = NoCall
    /\ \E t \in {Frac(0, 1), Frac(1, 2), Frac(1, 1)},
          p0 \in ControlPoints, p1 \in ControlPoints,
          p2 \in ControlPoints, p3 \in ControlPoints :
          call' = [fn |-> "cubicBezier", t |-> t,
                   p0 |-> p0, p1 |-> p1, p2 |-> p2, p3 |-> p3,
                   point |-> cubicBezier(t, p0[1], p0[2], p1[1], p1[2],
                                         p2[1], p2[2], p3[1], p3[2])]
    /\ UNCHANGED <<cfg, now>>
    /\ UNCHANGED mainVars
    /\ UNCHANGED windowVars
    /\ UNCHANGED sessionVars
    /\ UNCHANGED sharedVars

\* the values at the two ends of the range of randomFloat(min, max), in
\* tenths: Float64() is in [0, 1)
FloatEnds(min, max) == {Tenths * min, Tenths * max - 1}

\* the loop runs while i < numPoints: the point at t = 1 is not appended
generateBezierPath_ExclusiveLoop(x0, y0, x3, y3, draw) ==
    LET numPoints == 20 + draw.n
        x1 == Tenths * x0 + 3 * (x3 - x0) + draw.r[1]
        y1 == Tenths * y0 + 3 * (y3 - y0) + draw.r[2]
        x2 == Tenths * x0 + 7 * (x3 - x0) + draw.r[3]
        y2 == Tenths * y0 + 7 * (y3 - y0) + draw.r[4]
    IN  [i \in 1..numPoints |->
            cubicBezier(Frac(i - 1, numPoints),
                        Tenths * x0, Tenths * y0, x1, y1, x2, y2,
                        Tenths * x3, Tenths * y3)]

\* draw.n: Intn(10); draw.r: the four randomFloat(-50, 50), in tenths
generateBezierPath(x0, y0, x3, y3, draw) ==
    LET numPoints == 20 + draw.n
        x1 == Tenths * x0 + 3 * (x3 - x0) + draw.r[1]
        y1 == Tenths * y0 + 3 * (y3 - y0) + draw.r[2]
        x2 == Tenths * x0 + 7 * (x3 - x0) + draw.r[3]
        y2 == Tenths * y0 + 7 * (y3 - y0) + draw.r[4]
    IN  [i \in 1..(numPoints + 1) |->
            cubicBezier(Frac(i - 1, numPoints),
                        Tenths * x0, Tenths * y0, x1, y1, x2, y2,
                        Tenths * x3, Tenths * y3)]

PathDraws == [n : IntnEnds(10), r : [1..4 -> FloatEnds(-50, 50)]]

\* the (start, end) pairs tried, in units: the pair of
\* TestGenerateBezierPath, the pointer already on the target, and a move
\* up and to the left from getCurrentPosition's (100, 100)
Moves ==
    {<<<<0, 0>>, <<100, 100>>>>, <<<<100, 100>>, <<100, 100>>>>,
     <<<<100, 100>>, <<3, 250>>>>}

\* the offsets of the moves after the path, in tenths: a pair of
\* randomFloat(-w, w)
OffsetPairs(w) == FloatEnds(-w, w) \X FloatEnds(-w, w)

\* the draws of the overshoot: none when the option is off
OvershootDraws(on) == IF on THEN {<<o>> : o \in OffsetPairs(5)} ELSE {<<>>}

RECURSIVE CorrectionLoop(_, _)
\* iterations of `for i := 0; i < Intn(2)+1; i++` from i on; loop[i + 1] is
\* the draw of the test before iteration i
CorrectionLoop(loop, i) ==
    IF i < loop[i + 1] + 1 THEN 1 + CorrectionLoop(loop, i + 1) ELSE 0

\* the draws of the micro-corrections: loop: the Intn(2) of each test of
\* the loop; off: the offsets of each iteration; a draw that is not
\* consumed is fixed
CorrectionDraws(on) ==
    IF ~on THEN {[loop |-> <<0, 0, 0>>, off |-> <<>>]}
    ELSE {[loop |-> loop, off |-> off] :
            loop \in {l \in [1..3 -> 0..1] : l[2] = 0 => l[3] = 0},
            off \in [1..2 -> OffsetPairs(2)]}

\* the last move, to the end point itself, is left out
moveWithBezier_NoFinalMove(mouse, start, end, draw, over, corr) ==
    LET endPt == Pt(Tenths * end[1], Tenths * end[2])
        off(o) == Pt(Tenths * end[1] + o[1], Tenths * end[2] + o[2])
        n == IF mouse.MicroCorrections THEN CorrectionLoop(corr.loop, 0) ELSE 0
    IN  IF ~mouse.BezierCurves THEN <<endPt>>
        ELSE generateBezierPath(start[1], start[2], end[1], end[2], draw)
             \o [i \in 1..Len(over) |-> off(over[i])]
             \o [i \in 1..n |-> off(corr.off[i])]

\* the targets of page.Mouse.Move, in order
moveWithBezier(mouse, start, end, draw, over, corr) ==
    LET endPt == Pt(Tenths * end[1], Tenths * end[2])
        off(o) == Pt(Tenths * end[1] + o[1], Tenths * end[2] + o[2])
        n == IF mouse.MicroCorrections THEN CorrectionLoop(corr.loop, 0) ELSE 0
    IN  IF ~mouse.BezierCurves THEN <<endPt>>
        ELSE generateBezierPath(start[1], start[2], end[1], end[2], draw)
             \o [i \in 1..Len(over) |-> off(over[i])]
             \o [i \in 1..n |-> off(corr.off[i])]
             \o <<endPt>>

MouseConfigs == [BezierCurves : BOOLEAN, Overshoot : BOOLEAN, MicroCorrections : BOOLEAN]

CallMoveWithBezier ==
    /\ call = NoCall
    /\ \E mouse \in MouseConfigs, m \in Moves :
          \E draw \in (IF mouse.BezierCurves THEN PathDraws
                       ELSE {[n |-> 0, r |-> [i \in 1..4 |-> 0]]}),
             over \in OvershootDraws(mouse.BezierCurves /\ mouse.Overshoot),
             corr \in CorrectionDraws(mouse.BezierCurves /\ mouse.MicroCorrections) :
             call' = [fn |-> "moveWithBezier",
                      mouse |-> mouse,
                      start |-> Pt(Tenths * m[1][1], Tenths * m[1][2]),
                      end |-> Pt(Tenths * m[2][1], Tenths * m[2][2]),
                      path |-> IF mouse.BezierCurves
                               THEN generateBezierPath(m[1][1], m[1][2],
                                                       m[2][1], m[2][2], draw)
                               ELSE <<>>,
                      moves |-> moveWithBezier(mouse, m[1], m[2], draw, over, corr)]
    /\ UNCHANGED <<cfg, now>>
    /\ UNCHANGED mainVars
    /\ UNCHANGED windowVars
    /\ UNCHANGED sessionVars
    /\ UNCHANGED sharedVars

----------------------------------------------------------------------------
(* config.Config.Validate followed by the delay functions of               *)
(* stealth.TimingController and stealth.TypingSimulator: rand.Intn(n)      *)
(* panics when n <= 0.                                                     *)

IntnPanics(n) == n <= 0

RandomDelayPanics(c) == IntnPanics(c.MaxDelay - c.MinDelay + 1)
ThinkDelayPanics(c) == IntnPanics(c.ThinkMax - c.ThinkMin + 1)
BetweenActionsDelayPanics(c) ==
    LET jitterRange == c.BetweenActions * 200
    IN  IntnPanics(jitterRange * 2)
getTypingDelayPanics(c) == IntnPanics(c.TypingMax - c.TypingMin)
TypeWithThinkDelayPanics(c) == IntnPanics(c.ThinkMax - c.ThinkMin)

\* the delay functions that panic under configuration c
Panicking(c) ==
    {f \in {"RandomDelay", "ThinkDelay", "BetweenActionsDelay",
            "getTypingDelay", "TypeWithThinkDelay"} :
        \/ f = "RandomDelay" /\ RandomDelayPanics(c)
        \/ f = "ThinkDelay" /\ ThinkDelayPanics(c)
        \/ f = "BetweenActionsDelay" /\ BetweenActionsDelayPanics(c)
        \/ f = "getTypingDelay" /\ getTypingDelayPanics(c)
        \/ f = "TypeWithThinkDelay" /\ TypeWithThinkDelayPanics(c)}

\* the (min, max) pairs tried: the defaults, the pair swapped, an empty
\* range; and a negative minimum for the delay between actions
DelayPairs == {<<2, 8>>, <<8, 2>>, <<3, 3>>, <<-1, 8>>}
TypingPairs == {<<45, 120>>, <<120, 45>>, <<45, 45>>}
ThinkPairs == {<<500, 2000>>, <<2000, 500>>}

\* the configurations handed to Validate
ValidateConfigs ==
    {[DailyConnections |-> l[1], HourlyConnections |-> l[2],
      DailyMessages |-> l[3],
      BusinessHoursOnly |-> FALSE, DemoMode |-> FALSE,
      SafeMode |-> safe, LoginURL |-> url,
      MinDelay |-> d[1], MaxDelay |-> d[2], BetweenActions |-> b,
      TypingMin |-> ty[1], TypingMax |-> ty[2],
      ThinkMin |-> th[1], ThinkMax |-> th[2],
      DatabasePath |-> path] :
        l \in (0..1) \X (0..1) \X (0..1), safe \in BOOLEAN, url \in LoginURLs,
        d \in DelayPairs, b \in {0, 30}, ty \in TypingPairs, th \in ThinkPairs,
        path \in {"", "automation.db"}}

CallValidate ==
    /\ call = NoCall
    /\ \E c \in ValidateConfigs :
          call' = [fn |-> "Validate",
                   cfg |-> c,
                   ok |-> Validate(c),
                   after |-> Validated(c),
                   panics |-> Panicking(Validated(c))]
    /\ UNCHANGED <<cfg, now>>
    /\ UNCHANGED mainVars
    /\ UNCHANGED windowVars
    /\ UNCHANGED sessionVars
    /\ UNCHANGED sharedVars

----------------------------------------------------------------------------
(* auth.Service.Login: what it hands to LoginHandler.Login                 *)

\* the values tried for LOGIN_EMAIL and LOGIN_PASSWORD: unset, and two
\* real ones
Emails == {"", "alice@corp.example", "bob@corp.example"}
Passwords == {"", "correct horse", "hunter2"}
Environments == [email : Emails, password : Passwords]

MockCredentials == [email |-> "test@example.com", password |-> "test-password"]

\* no call of LoginHandler.Login
NotCalled == [email |-> "", password |-> ""]

\* safe mode leaves the credentials of the environment in place
Login_RealCredentials(safeMode, demoMode, env) ==
    IF env.email = "" \/ env.password = ""
    THEN [err |-> TRUE, called |-> FALSE, handed |-> NotCalled]
    ELSE IF demoMode
    THEN [err |-> FALSE, called |-> FALSE, handed |-> NotCalled]
    ELSE [err |-> FALSE, called |-> TRUE, handed |-> env]

\* err: Login returns an error of its own; called: LoginHandler.Login is
\* called; handed: the credentials passed to it
Login(safeMode, demoMode, env) ==
    IF env.email = "" \/ env.password = ""
    THEN [err |-> TRUE, called |-> FALSE, handed |-> NotCalled]
    ELSE IF demoMode
    THEN [err |-> FALSE, called |-> FALSE, handed |-> NotCalled]
    ELSE [err |-> FALSE, called |-> TRUE,
          handed |-> IF safeMode THEN MockCredentials ELSE env]

\* two runs of Login under one configuration and two environments
CallLogin ==
    /\ call = NoCall
    /\ \E safeMode \in BOOLEAN, demoMode \in BOOLEAN,
          env1 \in Environments, env2 \in Environments :
          call' = [fn |-> "Login",
                   safeMode |-> safeMode, demoMode |-> demoMode,
                   env1 |-> env1, env2 |-> env2,
                   run1 |-> Login(safeMode, demoMode, env1),
                   run2 |-> Login(safeMode, demoMode, env2)]
    /\ UNCHANGED <<cfg, now>>
    /\ UNCHANGED mainVars
    /\ UNCHANGED windowVars
    /\ UNCHANGED sessionVars
    /\ UNCHANGED sharedVars

\* the stealth functions keep no state between two calls and read neither
\* the store nor the clock: a behaviour is one call
InitStealth ==
    /\ cfg \in {c \in WindowConfigs : ~c.BusinessHoursOnly}
    /\ now = TimeLine[1]
    /\ faults = 0
    /\ stats = Empty
    /\ requests = Empty
    /\ phase = "stopped"
    /\ todo = {}
    /\ conns = {}
    /\ submitted = Empty
    /\ contacted = Empty
    /\ submittedInHour = 0
    /\ delivered = Empty
    /\ messaged = Empty
    /\ recorded = Empty
    /\ last = NoOutcome
    /\ WindowIdle
    /\ call = NoCall
    /\ SessionIdle

NextStealth ==
    \/ CallTypeIntoElement
    \/ CallExponentialBackoff
    \/ CallCubicBezier
    \/ CallMoveWithBezier
    \/ CallValidate
    \/ CallLogin

SpecStealth == InitStealth /\ [][NextStealth]_vars

----------------------------------------------------------------------------
(* storage.Database.SaveCookies / LoadCookies / InvalidateSession over the *)
(* row "session" of table session_state.                                   *)
(* A cookie is modelled by its Value and its Expires; the other string     *)
(* fields are encoded as Value is and the booleans are kept as they are.   *)
(* A JSON text is modelled by the document it denotes.                     *)

MaxCookies == 1      \* cookies in one SaveCookies

\* 7 * 24 * time.Hour, in hours
maxAge == 7 * 24

\* the instants of the session clock, in hours: a save at 0, 1 or
\* maxAge + 1 is exactly maxAge old, or one hour more, at a later instant
SessionTimeLine == <<0, 1, maxAge, maxAge + 1, maxAge + 2, 2 * maxAge + 1>>

\* string values: a valid one, one with a byte that is not UTF-8, and the
\* first with U+FFFD in the place of that byte
CookieStrings == {"sid=abc", "sid=<FF>", "sid=<U+FFFD>"}

\* times: one json can format, one whose year is past 9999
CookieTimes == {"2030-01-01T00:00:00Z", "year 10000"}

Cookie == [Value : CookieStrings, Expires : CookieTimes]
CookieLists == UNION {[1..n -> Cookie] : n \in 0..MaxCookies}

\* encoding/json writes a string coerced to valid UTF-8
MarshalString(v) == IF v = "sid=<FF>" THEN "sid=<U+FFFD>" ELSE v

\* Time.MarshalJSON fails for a year outside [0, 9999]
MarshalTimeFails(t) == t = "year 10000"

\* json.Marshal(SessionState{...})
Marshal(state) ==
    IF \E i \in 1..Len(state.Cookies) : MarshalTimeFails(state.Cookies[i].Expires)
    THEN [err |-> TRUE, data |-> NoRow]
    ELSE [err |-> FALSE,
          data |-> [row |-> TRUE,
                    value |->
                        [empty |-> FALSE,
                         doc |-> [Cookies |->
                                     [i \in 1..Len(state.Cookies) |->
                                         [Value |-> MarshalString(state.Cookies[i].Value),
                                          Expires |-> state.Cookies[i].Expires]],
                                  LastActivity |-> state.LastActivity,
                                  Valid |-> state.Valid]]]]

\* json.Unmarshal of a text json.Marshal wrote
Unmarshal(value) ==
    [Cookies |-> value.doc.Cookies,
     LastActivity |-> value.doc.LastActivity,
     Valid |-> value.doc.Valid]

\* GetSessionState("session"): no row reads as the empty string
GetSessionState(ok) ==
    IF ~ok THEN [err |-> TRUE, value |-> EmptyString]
    ELSE IF ~session.row THEN [err |-> FALSE, value |-> EmptyString]
    ELSE [err |-> FALSE, value |-> session.value]

SessionOutcome(op, storeErr, err, cookies) ==
    [op |-> op, storeErr |-> storeErr, err |-> err, cookies |-> cookies,
     at |-> now, since |-> saved]

\* ok: whether the write of SaveSessionState succeeds
SaveCookies(cookies, ok) ==
    LET m == Marshal([Cookies |-> cookies, LastActivity |-> now, Valid |-> TRUE])
    IN  IF m.err
        THEN /\ slast' = SessionOutcome("SaveCookies", FALSE, TRUE, <<>>)
             /\ UNCHANGED <<session, saved>>
        ELSE IF ~ok
        THEN /\ slast' = SessionOutcome("SaveCookies", TRUE, TRUE, <<>>)
             /\ UNCHANGED <<session, saved>>
        ELSE /\ session' = m.data
             /\ saved' = [some |-> TRUE, cookies |-> cookies, at |-> now,
                          invalidated |-> FALSE]
             /\ slast' = SessionOutcome("SaveCookies", FALSE, FALSE, <<>>)

\* the session never expires
LoadCookiesOf_NoExpiry(g) ==
    IF g.err THEN SessionOutcome("LoadCookies", TRUE, TRUE, <<>>)
    ELSE IF g.value.empty THEN SessionOutcome("LoadCookies", FALSE, FALSE, <<>>)
    ELSE LET state == Unmarshal(g.value)
         IN  IF ~state.Valid
             THEN SessionOutcome("LoadCookies", FALSE, TRUE, <<>>)
             ELSE SessionOutcome("LoadCookies", FALSE, FALSE, state.Cookies)

\* LoadCookies on the result g of GetSessionState
LoadCookiesOf(g) ==
    IF g.err THEN SessionOutcome("LoadCookies", TRUE, TRUE, <<>>)
    ELSE IF g.value.empty THEN SessionOutcome("LoadCookies", FALSE, FALSE, <<>>)
    ELSE LET state == Unmarshal(g.value)
         IN  IF ~state.Valid
             THEN SessionOutcome("LoadCookies", FALSE, TRUE, <<>>)
             ELSE IF now - state.LastActivity > maxAge
             THEN SessionOutcome("LoadCookies", FALSE, TRUE, <<>>)
             ELSE SessionOutcome("LoadCookies", FALSE, FALSE, state.Cookies)

LoadCookies(ok) ==
    /\ slast' = LoadCookiesOf(GetSessionState(ok))
    /\ UNCHANGED <<session, saved>>

InvalidateSession(ok) ==
    IF ok
    THEN /\ session' = Invalidated
         /\ saved' = [saved EXCEPT !.invalidated = TRUE]
         /\ slast' = SessionOutcome("InvalidateSession", FALSE, FALSE, <<>>)
    ELSE /\ slast' = SessionOutcome("InvalidateSession", TRUE, TRUE, <<>>)
         /\ UNCHANGED <<session, saved>>

CallSaveCookies ==
    /\ \E cookies \in CookieLists, ok \in BOOLEAN : SaveCookies(cookies, ok)
    /\ UNCHANGED <<cfg, now>>
    /\ UNCHANGED mainVars
    /\ UNCHANGED windowVars
    /\ UNCHANGED stealthVars
    /\ UNCHANGED sharedVars

CallLoadCookies ==
    /\ \E ok \in BOOLEAN : LoadCookies(ok)
    /\ UNCHANGED <<cfg, now>>
    /\ UNCHANGED mainVars
    /\ UNCHANGED windowVars
    /\ UNCHANGED stealthVars
    /\ UNCHANGED sharedVars

CallInvalidateSession ==
    /\ \E ok \in BOOLEAN : InvalidateSession(ok)
    /\ UNCHANGED <<cfg, now>>
    /\ UNCHANGED mainVars
    /\ UNCHANGED windowVars
    /\ UNCHANGED stealthVars
    /\ UNCHANGED sharedVars

\* the clock moves to a later instant
SessionTick ==
    /\ \E i \in 1..Len(SessionTimeLine), j \in 1..Len(SessionTimeLine) :
          /\ i < j
          /\ now = SessionTimeLine[i]
          /\ now' = SessionTimeLine[j]
    /\ UNCHANGED cfg
    /\ UNCHANGED mainVars
    /\ UNCHANGED windowVars
    /\ UNCHANGED stealthVars
    /\ UNCHANGED sessionVars
    /\ UNCHANGED sharedVars

InitSession ==
    /\ cfg \in {c \in WindowConfigs : ~c.BusinessHoursOnly}
    /\ now = SessionTimeLine[1]
    /\ faults = 0
    /\ stats = Empty
    /\ requests = Empty
    /\ phase = "stopped"
    /\ todo = {}
    /\ conns = {}
    /\ submitted = Empty
    /\ contacted = Empty
    /\ submittedInHour = 0
    /\ delivered = Empty
    /\ messaged = Empty
    /\ recorded = Empty
    /\ last = NoOutcome
    /\ WindowIdle
    /\ call = NoCall
    /\ SessionIdle

NextSession ==
    \/ CallSaveCookies
    \/ CallLoadCookies
    \/ CallInvalidateSession
    \/ SessionTick

SpecSession == InitSession /\ [][NextSession]_vars

----------------------------------------------------------------------------
(* connections.RateLimiter.EnforceDelay over a daily_stats table that a    *)
(* previous session may have left with any counts                          *)

MaxMore == 2         \* increments in one behaviour of SpecDelay

\* the counts of today's row when the session starts: around half of, and
\* around, the threshold of EnforceDelay
StoredSent == {0, 15, 29, 30}

\* the doubling starts at the threshold: actionsToday >= 30
EnforceDelayOf_AtThreshold(sr) ==
    LET baseDelay == cfg.BetweenActions
    IN  IF ~sr.err
        THEN LET actionsToday == sr.row.connections_sent + sr.row.messages_sent
             IN  IF actionsToday >= 30 THEN baseDelay * 2 ELSE baseDelay
        ELSE baseDelay

\* the duration EnforceDelay sleeps, in seconds, on the result sr of
\* GetTodayStats (stats is nil when it failed); nothing wraps in int64 for
\* between_actions below 2^32 seconds
EnforceDelayOf(sr) ==
    LET baseDelay == cfg.BetweenActions
    IN  IF ~sr.err
        THEN LET actionsToday == sr.row.connections_sent + sr.row.messages_sent
             IN  IF actionsToday > 30 THEN baseDelay * 2 ELSE baseDelay
        ELSE baseDelay

\* EnforceDelay(action); ok: whether GetTodayStats succeeds
EnforceDelay(action, ok) ==
    /\ call' = [fn |-> "EnforceDelay", action |-> action, readable |-> ok,
                at |-> now, slept |-> EnforceDelayOf(GetTodayStats(ok))]
    /\ UNCHANGED <<cfg, now>>
    /\ UNCHANGED mainVars
    /\ UNCHANGED windowVars
    /\ UNCHANGED sessionVars
    /\ UNCHANGED sharedVars

CallEnforceDelay == \E action \in Kinds, ok \in BOOLEAN : EnforceDelay(action, ok)

\* a successful increment of kind k by any caller
RecordMore(k) ==
    /\ Count(recorded, <<"connection", DateOf(now)>>)
         + Count(recorded, <<"message", DateOf(now)>>) < MaxMore
    /\ stats' = IF k = "connection"
                THEN IncrementConnectionCount(stats, DateOf(now))
                ELSE IncrementMessageCount(stats, DateOf(now))
    /\ recorded' = Bump(recorded, <<k, DateOf(now)>>)
    /\ UNCHANGED <<cfg, now, faults, requests, phase, todo, conns, submitted,
                   contacted, submittedInHour, delivered, messaged, last>>
    /\ UNCHANGED windowVars
    /\ UNCHANGED stealthVars
    /\ UNCHANGED sessionVars
    /\ UNCHANGED sharedVars

InitDelay ==
    /\ cfg \in {c \in WindowConfigs : ~c.BusinessHoursOnly}
    /\ now = TimeLine[1]
    /\ faults = 0
    /\ stats \in {Empty} \cup
                 {DateOf(now) :> [connections_sent |-> c, messages_sent |-> m,
                                  connections_limit |-> DefaultConnectionsLimit,
                                  messages_limit |-> DefaultMessagesLimit] :
                     c \in StoredSent, m \in StoredSent}
    /\ requests = Empty
    /\ phase = "stopped"
    /\ todo = {}
    /\ conns = {}
    /\ submitted = Empty
    /\ contacted = Empty
    /\ submittedInHour = 0
    /\ delivered = Empty
    /\ messaged = Empty
    /\ recorded = Empty
    /\ last = NoOutcome
    /\ WindowIdle
    /\ call = NoCall
    /\ SessionIdle

NextDelay ==
    \/ CallEnforceDelay
    \/ \E k \in Kinds : RecordMore(k)
    \/ Tick

SpecDelay == InitDelay /\ [][NextDelay]_vars

----------------------------------------------------------------------------
(* Two sessions (processes) on one database file, each running             *)
(* connections.Service.SendConnectionRequest for a profile of its own.     *)
(* SQLite runs each statement on its own: the read of CanSendConnection,   *)
(* the page steps, and the writes SaveConnectionRequest and                *)
(* IncrementConnectionCount are three steps that the steps of the other    *)
(* session can come between. The store is available.                       *)

\* SendConnectionRequest up to the admission check
SessionCheck(i) ==
    /\ sess[i] = "idle"
    /\ sess' = IF ~cfg.DemoMode /\ CanSendConnection(TRUE)
               THEN [sess EXCEPT ![i] = "admitted"]
               ELSE sess
    /\ UNCHANGED <<cfg, now>>
    /\ UNCHANGED mainVars
    /\ UNCHANGED windowVars
    /\ UNCHANGED stealthVars
    /\ UNCHANGED sessionVars

\* the page steps, up to and including submitConnectionRequest
SessionSubmit(i) ==
    /\ sess[i] = "admitted"
    /\ sess' = [sess EXCEPT ![i] = "submitted"]
    /\ submitted' = Bump(submitted, DateOf(now))
    /\ contacted' = Bump(contacted, i)
    /\ submittedInHour' = submittedInHour + 1
    /\ UNCHANGED <<cfg, now, faults, stats, requests, phase, todo, conns,
                   delivered, messaged, recorded, last>>
    /\ UNCHANGED windowVars
    /\ UNCHANGED stealthVars
    /\ UNCHANGED sessionVars

\* SaveConnectionRequest and IncrementConnectionCount
SessionRecord(i) ==
    /\ sess[i] = "submitted"
    /\ sess' = [sess EXCEPT ![i] = "idle"]
    /\ requests' = SaveConnectionRequest(requests, i)
    /\ stats' = IncrementConnectionCount(stats, DateOf(now))
    /\ recorded' = Bump(recorded, <<"connection", DateOf(now)>>)
    /\ UNCHANGED <<cfg, now, faults, phase, todo, conns, submitted, contacted,
                   submittedInHour, delivered, messaged, last>>
    /\ UNCHANGED windowVars
    /\ UNCHANGED stealthVars
    /\ UNCHANGED sessionVars

NextShared ==
    \/ \E i \in Sessions : SessionCheck(i)
    \/ \E i \in Sessions : SessionSubmit(i)
    \/ \E i \in Sessions : SessionRecord(i)
    \/ Tick

SpecShared == Init /\ [][NextShared]_vars

----------------------------------------------------------------------------
(* C1: with the business-hours-only flag off and the store available,      *)
(* CanPerform(kind) is false exactly when today's sent[kind] has reached   *)
(* the configured daily limit of that kind, and the answer is the same     *)
(* whatever the other kind's sent count is.                                *)

C1_CanPerformExact ==
    ~cfg.BusinessHoursOnly =>
        \A k \in Kinds :
            /\ (~CanPerform(k, TRUE)) <=> (SentToday(k) >= Limit(k))
            /\ \A n \in 0..(MaxDaily + 1) :
                  CanPerformWith(k, Other(k), n) = CanPerform(k, TRUE)

\* connections are denied at the limit while messages are still admitted
C1_Witness ==
    /\ ~cfg.BusinessHoursOnly
    /\ SentToday("connection") >= Limit("connection")
    /\ SentToday("message") >= 1
    /\ SentToday("message") < Limit("message")
    /\ ~CanPerform("connection", TRUE)
    /\ CanPerform("message", TRUE)

----------------------------------------------------------------------------
(* C2, as amended: for any limit L > 0, when today's sent[kind] = L-1, the *)
(* store is readable and the business-hours gate of the kind is open,      *)
(* CanPerform(kind) is true; one RecordCompletion(kind) then makes         *)
(* sent[kind] = L, and every CanPerform(kind) after it on the same date    *)
(* is false.                                                               *)

C2_StepOf(open(_)) ==
    \A k \in Kinds :
        LET d == DateOf(now')
        IN  /\ (open(k) /\ SentToday(k) = Limit(k) - 1) => CanPerform(k, TRUE)
            /\ (/\ Count(recorded', <<k, d>>) = Count(recorded, <<k, d>>) + 1
                /\ SentOn(stats, k, d) = Limit(k) - 1)
               => /\ SentOn(stats', k, d) = Limit(k)
                  /\ \A ok \in BOOLEAN : ~CanPerformAt(k, stats', now', ok)
            /\ (DateOf(now') = DateOf(now) /\ SentToday(k) >= Limit(k))
               => \A ok \in BOOLEAN : ~CanPerformAt(k, stats', now', ok)

C2_Scenario == [][C2_StepOf(GateOpen)]_vars

AlwaysOpen(k) == TRUE

\* C2 as stated: sent[kind] = L-1 alone makes CanPerform(kind) true
C2_Original == [][C2_StepOf(AlwaysOpen)]_vars

\* a RecordCompletion has just taken a kind from L-1 to L
C2_Witness ==
    \E k \in Kinds :
        /\ ~last.err /\ ~last.incFailed
        /\ last.op = (IF k = "connection" THEN "IncrementConnectionCount"
                                          ELSE "IncrementMessageCount")
        /\ SentToday(k) = Limit(k)
        /\ Count(recorded, <<k, DateOf(now)>>) = Limit(k)
        /\ ~CanPerform(k, TRUE)

----------------------------------------------------------------------------
(* C3: on every date, the number of connection requests submitted never    *)
(* exceeds limits.daily_connections, storage failures and restarts         *)
(* included.                                                               *)

C3_DailyConnectionCap ==
    \A d \in DOMAIN submitted : submitted[d] <= cfg.DailyConnections

----------------------------------------------------------------------------
(* C4: on every date, the number of follow-up messages sent never exceeds  *)
(* limits.daily_messages.                                                  *)

C4_DailyMessageCap ==
    \A d \in DOMAIN delivered : delivered[d] <= cfg.DailyMessages

----------------------------------------------------------------------------
(* C5: in every hour, the number of connection requests submitted never    *)
(* exceeds limits.hourly_connections.                                      *)

C5_HourlyConnectionCap == submittedInHour <= cfg.HourlyConnections

----------------------------------------------------------------------------
(* C6: with business-hours-only set and the time outside Monday-Friday     *)
(* 09:00-17:00, CanPerform is false for every kind whatever the counts.    *)

C6_ClosedOutsideWindow ==
    (cfg.BusinessHoursOnly /\ ~IsBusinessHours) =>
        \A k \in Kinds, ok \in BOOLEAN : ~CanPerform(k, ok)

----------------------------------------------------------------------------
(* C7: with business-hours-only set and the time outside the window, the   *)
(* scan returns the first instant, stepping hour by hour, that lies in     *)
(* the Monday-Friday 09:00-17:00 window; from Saturday 10:00 that is the   *)
(* following Monday 09:00.                                                 *)

FirstOpenInstant(t) ==
    t + (CHOOSE k \in 1..HoursPerWeek :
            /\ IsBusinessHoursAt(t + k)
            /\ \A j \in 1..(k - 1) : ~IsBusinessHoursAt(t + j))

NextMonday0900 == 7 * HoursPerDay + 9

C7_NextAllowedWindow ==
    (wpc = "done" /\ cfg.BusinessHoursOnly /\ ~IsBusinessHoursAt(wstart)) =>
        /\ wresult = FirstOpenInstant(wstart)
        /\ wstart = Saturday1000 => wresult = NextMonday0900

----------------------------------------------------------------------------
(* C8: a store failure is propagated: CanPerform's outcome on an           *)
(* unavailable store differs from a quota denial, and a failed             *)
(* RecordCompletion makes the invoking action return an error.             *)

C8_StoreFailurePropagated ==
    /\ last.incFailed => last.err
    /\ \A k \in Kinds :
          SentToday(k) >= Limit(k) => CanPerform(k, FALSE) /= CanPerform(k, TRUE)

----------------------------------------------------------------------------
(* C9: each successful RecordCompletion(kind) raises today's sent[kind] by *)
(* exactly 1, so sent[kind] equals the number of successful calls; a       *)
(* missing row is created with sent[kind] = 1, the other count 0 and the   *)
(* limits 50 and 30; the other count and the limits of an existing row     *)
(* stay as they are.                                                       *)

C9_Step ==
    /\ \A k \in Kinds, d \in DOMAIN stats' :
          SentOn(stats', k, d) = Count(recorded', <<k, d>>)
    /\ \A k \in Kinds :
          LET d == DateOf(now')
          IN  Count(recorded', <<k, d>>) = Count(recorded, <<k, d>>) + 1
              => /\ SentOn(stats', k, d) = SentOn(stats, k, d) + 1
                 /\ SentOn(stats', Other(k), d) = SentOn(stats, Other(k), d)
                 /\ d \notin DOMAIN stats => SentOn(stats', k, d) = 1
    /\ \A d \in DOMAIN stats' \ DOMAIN stats :
          /\ stats'[d].connections_limit = 50
          /\ stats'[d].messages_limit = 30
          /\ stats'[d].connections_sent + stats'[d].messages_sent = 1
    /\ \A d \in DOMAIN stats :
          /\ d \in DOMAIN stats'
          /\ stats'[d].connections_limit = stats[d].connections_limit
          /\ stats'[d].messages_limit = stats[d].messages_limit

C9_RecordCompletion == [][C9_Step]_vars

\* a row that took two connection completions and a message completion
C9_Witness ==
    \E d \in DOMAIN stats :
        /\ stats[d].connections_sent = 2
        /\ stats[d].messages_sent >= 1
        /\ Count(recorded, <<"connection", d>>) = 2

----------------------------------------------------------------------------
(* C10: the sent counts of a date's row never decrease; after the date     *)
(* rolls over, completions go to the row of the new date and the rows of   *)
(* earlier dates are never modified again.                                 *)

C10_Step ==
    /\ \A d \in DOMAIN stats :
          /\ d \in DOMAIN stats'
          /\ stats'[d].connections_sent >= stats[d].connections_sent
          /\ stats'[d].messages_sent >= stats[d].messages_sent
          /\ d < DateOf(now') => stats'[d] = stats[d]
    /\ \A d \in DOMAIN stats' \ DOMAIN stats : d = DateOf(now')
    /\ \A key \in DOMAIN recorded' :
          Count(recorded', key) /= Count(recorded, key)
          => /\ key[2] = DateOf(now')
             /\ SentOn(stats', key[1], key[2]) > SentOn(stats, key[1], key[2])

C10_MonotoneRows == [][C10_Step]_vars

\* after a rollover: yesterday's row is kept and today's row has a count
C10_Witness ==
    \E d1 \in DOMAIN stats :
        /\ d1 < DateOf(now)
        /\ stats[d1].connections_sent >= 1
        /\ DateOf(now) \in DOMAIN stats
        /\ stats[DateOf(now)].connections_sent >= 1

----------------------------------------------------------------------------
(* C11, as amended: for every kind, two CanPerform(kind) calls on a        *)
(* readable store with no successful RecordCompletion between them return  *)
(* the same result as long as the local date is the same and, for a kind   *)
(* with a business-hours gate, the clock is on the same side of the        *)
(* Monday-Friday 09:00-17:00 window at both calls.                         *)

\* no successful RecordCompletion in the step
NoCompletion == recorded' = recorded

\* same(k): the clock conditions under which the two calls are compared
C11_StepOf(same(_)) ==
    \A k \in Kinds :
        (NoCompletion /\ same(k))
        => CanPerformAt(k, stats', now', TRUE) = CanPerformAt(k, stats, now, TRUE)

SameDateAndSide(k) ==
    /\ DateOf(now') = DateOf(now)
    /\ (k = "connection" /\ cfg.BusinessHoursOnly)
       => (IsBusinessHoursAt(now') = IsBusinessHoursAt(now))

C11_Idempotent == [][C11_StepOf(SameDateAndSide)]_vars

AnyClock(k) == TRUE

\* C11 as stated: the same result also when the wall clock advances
C11_Original == [][C11_StepOf(AnyClock)]_vars

\* a failed increment at the limit, on a closed Friday evening: the second
\* call is made after a failed RecordCompletion and after the clock moved
C11_Witness ==
    /\ last.op = "IncrementConnectionCount"
    /\ last.err
    /\ now = Friday2300
    /\ SentToday("connection") = Limit("connection") - 1
    /\ SentToday("message") = Limit("message")
    /\ ~cfg.BusinessHoursOnly
    /\ CanPerform("connection", TRUE)
    /\ ~CanPerform("message", TRUE)

----------------------------------------------------------------------------
(* C12: for every kind and every counter state, RemainingQuota(kind)       *)
(* equals max(0, limit[kind] - sent[kind]); it is never negative, and it   *)
(* is 0 exactly when sent[kind] >= limit[kind].                            *)

RemainingQuota(k) ==
    IF k = "connection" THEN GetRemainingConnections(TRUE)
    ELSE GetRemainingMessages(TRUE)

Max(a, b) == IF a >= b THEN a ELSE b

----------------------------------------------------------------------------
(* C13: for every text of length >= 3, every typo position and every wrong *)
(* character the typo branch can choose, replaying the emitted keystrokes  *)
(* in order (append each character, delete the last character on the       *)
(* correction marker) yields exactly the original text; the same holds for *)
(* the plain branch for every text.                                        *)

C13_ReplayRebuildsText ==
    call.fn = "TypeIntoElement" => Replay(call.plan) = call.text

\* a typo detour in the middle of a text: a wrong character that differs
\* from the one it replaces, then the correction
C13_Witness ==
    /\ call.fn = "TypeIntoElement"
    /\ call.typo /\ call.humanLike
    /\ Len(call.text) >= 3
    /\ \E i \in 2..(Len(call.plan) - 1) :
          /\ call.plan[i].isCorrection
          /\ call.plan[i - 1].char /= call.plan[i + 1].char
    /\ Replay(call.plan) = call.text

----------------------------------------------------------------------------
(* C14: for every text of fewer than 3 characters, the empty text          *)
(* included, typing never emits a wrong character or a correction marker,  *)
(* whatever the draw of the typo decision is: the plain plan is used.      *)

C14_ShortTextPlain ==
    (call.fn = "TypeIntoElement" /\ Len(call.text) < 3)
    => /\ \A i \in 1..Len(call.plan) : ~call.plan[i].isCorrection
       /\ [i \in 1..Len(call.plan) |-> call.plan[i].char] = call.text

----------------------------------------------------------------------------
(* C15: for every maxDelay >= 0 and every pair of attempts 0 <= a <= b,    *)
(* in 64-bit duration arithmetic, the deterministic term of                *)
(* ExponentialBackoff satisfies term(a) <= term(b) and                     *)
(* term(a) = min(2^a seconds, maxDelay); the returned duration is never    *)
(* negative and never exceeds maxDelay + 1000 ms. term(a) <= term(a+1)     *)
(* for every a is the same as term(a) <= term(b) for every a <= b.         *)

\* min(2^a seconds, maxDelay) in arithmetic that does not wrap
ExactTerm(a, maxDelay) ==
    Narrow(BackoffTerm(a, Widen(maxDelay, WideBytes), WideBytes), WordBytes)

C15_Backoff ==
    call.fn = "ExponentialBackoff"
    => /\ ~Less(call.termNext, call.term)
       /\ call.term = ExactTerm(call.attempt, call.maxDelay)
       /\ ~IsNeg(call.result)
       /\ ~Less(Add(Widen(call.maxDelay, WideBytes),
                    Mul(FromNat(1000, WideBytes), Millisecond(WideBytes))),
                Widen(call.result, WideBytes))

----------------------------------------------------------------------------
(* C16: cubicBezier returns P0 exactly at t=0 and P3 exactly at t=1 for    *)
(* all control points, and for the collinear control points P0=(0,0),      *)
(* P1=(33,33), P2=(66,66), P3=(100,100) its value at t=0.5 is within 0.1   *)
(* of (50,50) on each axis.                                                *)

Abs(x) == IF x < 0 THEN -x ELSE x

\* |p.X/p.den - x| <= 1/10 and |p.Y/p.den - y| <= 1/10
WithinTenth(p, x, y) ==
    /\ 10 * Abs(p.X - x * p.den) <= p.den
    /\ 10 * Abs(p.Y - y * p.den) <= p.den

C16_BezierValues ==
    call.fn = "cubicBezier"
    => /\ call.t = Frac(0, 1) => SamePoint(call.point, Pt(call.p0[1], call.p0[2]))
       /\ call.t = Frac(1, 1) => SamePoint(call.point, Pt(call.p3[1], call.p3[2]))
       /\ (/\ call.t = Frac(1, 2)
           /\ call.p0 = <<0, 0>> /\ call.p1 = <<33, 33>>
           /\ call.p2 = <<66, 66>> /\ call.p3 = <<100, 100>>)
          => WithinTenth(call.point, 50, 50)

----------------------------------------------------------------------------
(* C17: for every (start, end), every random choice of the two control     *)
(* points and every drawn point count, the path returned by                *)
(* generateBezierPath has its first point equal to start and its last      *)
(* point equal to end, and it has at least 20 and at most 30 points.       *)

C17_PathEnds ==
    (call.fn = "moveWithBezier" /\ call.mouse.BezierCurves)
    => /\ Len(call.path) >= 20
       /\ Len(call.path) <= 30
       /\ SamePoint(call.path[1], call.start)
       /\ SamePoint(call.path[Len(call.path)], call.end)

\* the longest path, between two different points, that leaves the start
\* at once and is off the end one point before the last
C17_Witness ==
    /\ call.fn = "moveWithBezier"
    /\ call.mouse.BezierCurves
    /\ ~SamePoint(call.start, call.end)
    /\ Len(call.path) = 30
    /\ ~SamePoint(call.path[2], call.start)
    /\ ~SamePoint(call.path[29], call.end)
    /\ SamePoint(call.path[30], call.end)

----------------------------------------------------------------------------
(* C18: when start equals end, path generation yields a path of exactly    *)
(* one point, the start/end point, whatever the configuration and the      *)
(* random draws are.                                                       *)

C18_SinglePoint ==
    (call.fn = "moveWithBezier" /\ SamePoint(call.start, call.end))
    => /\ Len(call.moves) = 1
       /\ call.mouse.BezierCurves => Len(call.path) = 1

----------------------------------------------------------------------------
(* C19: Validate rejects every configuration in which a maximum delay is   *)
(* below its minimum (min_delay/max_delay, typing_min/typing_max,          *)
(* think_min/think_max) or a limit (daily_connections,                     *)
(* hourly_connections, daily_messages) is not positive, it leaves the      *)
(* configuration as it was, and under a configuration it accepts no delay  *)
(* function fails.                                                         *)

C19_ValidateRejects ==
    call.fn = "Validate"
    => /\ (\/ call.cfg.MaxDelay < call.cfg.MinDelay
           \/ call.cfg.TypingMax < call.cfg.TypingMin
           \/ call.cfg.ThinkMax < call.cfg.ThinkMin
           \/ call.cfg.DailyConnections <= 0
           \/ call.cfg.HourlyConnections <= 0
           \/ call.cfg.DailyMessages <= 0) => ~call.ok
       /\ call.after = call.cfg
       /\ call.ok => call.panics = {}

----------------------------------------------------------------------------
(* C20: every think-pause inserted while typing, in a plain plan or in a   *)
(* plan with a typo, lasts at least 200 ms and at most 800 ms.             *)

C20_ThinkPauseBounds ==
    call.fn = "TypeIntoElement"
    => \A i \in 1..Len(call.plan) :
          call.plan[i].think /= 0
          => (call.plan[i].think >= 200 /\ call.plan[i].think <= 800)

----------------------------------------------------------------------------
(* C21: across any sequence of runs, storage failures and restarts, no     *)
(* profile is submitted more than one connection request.                  *)

C21_NoDuplicateRequest ==
    \A p \in DOMAIN contacted : contacted[p] <= 1

----------------------------------------------------------------------------
(* C22: across any sequence of runs, storage failures and restarts, each   *)
(* accepted connection is sent at most one follow-up message.              *)

C22_NoDuplicateMessage ==
    \A p \in DOMAIN messaged : messaged[p] <= 1

----------------------------------------------------------------------------
(* C23: in safe mode, two runs of auth.Service.Login that differ only in   *)
(* the non-empty values of LOGIN_EMAIL and LOGIN_PASSWORD pass the same    *)
(* credentials to LoginHandler.Login, the fixed mock pair: the values of   *)
(* the environment never reach the page.                                   *)

NonEmpty(env) == env.email /= "" /\ env.password /= ""

C23_SafeModeCredentials ==
    (/\ call.fn = "Login"
     /\ call.safeMode
     /\ NonEmpty(call.env1)
     /\ NonEmpty(call.env2))
    => /\ call.run1 = call.run2
       /\ call.run1.called => call.run1.handed = MockCredentials
       /\ call.run2.called => call.run2.handed = MockCredentials

\* two environments that differ in both values, safe mode on, and the
\* handler called
C23_Witness ==
    /\ call.fn = "Login"
    /\ call.safeMode
    /\ NonEmpty(call.env1)
    /\ NonEmpty(call.env2)
    /\ call.env1.email /= call.env2.email
    /\ call.env1.password /= call.env2.password
    /\ call.run1.called
    /\ call.run2.called

----------------------------------------------------------------------------
(* C24: after a SaveCookies(c) that returned no error, a LoadCookies that  *)
(* can read the store returns c (every string of c being valid UTF-8) as   *)
(* long as at most 7 days have passed since the save and no                *)
(* InvalidateSession has succeeded since; once more than 7 days have       *)
(* passed it returns an error and no cookies; after a successful           *)
(* InvalidateSession it returns no cookies and no error until the next     *)
(* SaveCookies; when the store cannot be read it returns an error and no   *)
(* cookies.                                                                *)

ValidUTF8(cookies) ==
    \A i \in 1..Len(cookies) : cookies[i].Value /= "sid=<FF>"

Loaded == slast.op = "LoadCookies" /\ slast.since.some

\* hours between the save and the LoadCookies
Age == slast.at - slast.since.at

C24_CookieRoundTrip ==
    Loaded
    => IF slast.storeErr THEN slast.err /\ slast.cookies = <<>>
       ELSE IF slast.since.invalidated THEN ~slast.err /\ slast.cookies = <<>>
       ELSE IF Age > maxAge THEN slast.err /\ slast.cookies = <<>>
       ELSE /\ ~slast.err
            /\ Len(slast.cookies) = Len(slast.since.cookies)
            /\ ValidUTF8(slast.since.cookies)
               => slast.cookies = slast.since.cookies

\* C24 as stated: whatever the store does on the read, and whatever bytes
\* the strings of c hold
C24_Original ==
    Loaded
    => IF slast.since.invalidated THEN slast.cookies = <<>>
       ELSE IF Age > maxAge THEN slast.err /\ slast.cookies = <<>>
       ELSE ~slast.err /\ slast.cookies = slast.since.cookies

\* a cookie saved exactly 7 days before is returned
C24_Witness ==
    /\ Loaded
    /\ ~slast.err
    /\ Age = maxAge
    /\ slast.since.cookies /= <<>>
    /\ slast.cookies = slast.since.cookies

----------------------------------------------------------------------------
(* C25: in the typo branch, for every text of length >= 3 as the code      *)
(* counts it, the plan holds exactly one detour, at a position that is     *)
(* neither the first nor the last character: the wrong character, followed *)
(* by a recognition pause of 200-600 ms, then the correction marker, then  *)
(* the correct character of that position; every other character is        *)
(* emitted once, in text order.                                            *)

\* plan is text with one detour before its pos-th character
DetourAt(plan, text, pos) ==
    /\ Len(plan) = Len(text) + 2
    /\ \A k \in 1..(pos - 1) : plan[k] = Key(text[k], 0)
    /\ \E i \in 1..Len(typoChars) : plan[pos].char = typoChars[i]
    /\ ~plan[pos].isCorrection
    /\ plan[pos].recognition >= 200
    /\ plan[pos].recognition <= 600
    /\ plan[pos + 1] = Backspace
    /\ \A k \in pos..Len(text) : plan[k + 2] = Key(text[k], 0)

C25_OneInteriorDetour ==
    (/\ call.fn = "TypeIntoElement"
     /\ call.humanLike
     /\ call.typo
     /\ ByteLen(call.text) >= 3)
    => \E pos \in 2..(Len(call.text) - 1) : DetourAt(call.plan, call.text, pos)

----------------------------------------------------------------------------
(* C26: with curves enabled, the pointer moves of one movement are, in     *)
(* this order: the curve points from start to end; exactly one overshoot   *)
(* point within 5 units of end on each axis if overshoot is enabled; 1 or  *)
(* 2 micro-correction points, each within 2 units of end on each axis, if  *)
(* micro-corrections are enabled; and last a move to exactly end.          *)

\* p is within w units of q on each axis (both in tenths)
Near(p, q, w) ==
    /\ Abs(p.X * q.den - q.X * p.den) <= Tenths * w * p.den * q.den
    /\ Abs(p.Y * q.den - q.Y * p.den) <= Tenths * w * p.den * q.den

C26_MoveOrder ==
    (call.fn = "moveWithBezier" /\ call.mouse.BezierCurves)
    => LET n == Len(call.path)
           o == IF call.mouse.Overshoot THEN 1 ELSE 0
           m == Len(call.moves) - n - o - 1
       IN  /\ Len(call.moves) >= n + 1
           /\ SubSeq(call.moves, 1, n) = call.path
           /\ call.mouse.Overshoot => Near(call.moves[n + 1], call.end, 5)
           /\ IF call.mouse.MicroCorrections THEN m \in 1..2 ELSE m = 0
           /\ \A i \in 1..m : Near(call.moves[n + o + i], call.end, 2)
           /\ call.moves[Len(call.moves)] = call.end

\* overshoot and two micro-corrections, all three away from end
C26_Witness ==
    /\ call.fn = "moveWithBezier"
    /\ call.mouse.BezierCurves
    /\ call.mouse.Overshoot
    /\ call.mouse.MicroCorrections
    /\ Len(call.moves) = Len(call.path) + 4
    /\ \A i \in 1..3 : call.moves[Len(call.path) + i] /= call.end
    /\ ~Near(call.moves[Len(call.path) + 1], call.end, 2)

----------------------------------------------------------------------------
(* C27: when the store can be read, EnforceDelay blocks for the base       *)
(* between-actions duration while today's combined sent count is at most   *)
(* 30 and for twice that duration once it exceeds 30; when the store       *)
(* cannot be read it blocks for the base duration; the action kind does    *)
(* not change the duration, and the counters are left unchanged.           *)

CombinedToday == SentToday("connection") + SentToday("message")

\* a step of EnforceDelay
EnforceDelayStep == call'.fn = "EnforceDelay" /\ call' /= call

----------------------------------------------------------------------------
(* C28: the forward scan of NextActionTime and WaitUntilNextWindow always  *)
(* ends, for every start time and whether or not a business window ever    *)
(* opens, and the instant it returns is at most 48 hours after the time of *)
(* the call.                                                               *)

C28_ScanBound ==
    wpc = "done" => wresult - wstart <= ScanLimitHours

----------------------------------------------------------------------------
(* C29: when two sessions share one counter store whose increments are     *)
(* serialized, every interleaving of their steps (CanPerform check,        *)
(* performing the action, RecordCompletion) keeps the sent count of each   *)
(* date at or below the limit, and no increment is lost.                   *)

C29_SharedStore ==
    /\ \A d \in DOMAIN stats : stats[d].connections_sent <= cfg.DailyConnections
    /\ \A d \in DOMAIN stats :
          stats[d].connections_sent = Count(recorded, <<"connection", d>>)

----------------------------------------------------------------------------
(* C30: with the business-hours-only flag off and the store available, the *)
(* flag can_send_more of GetAutomationState equals the result of           *)
(* CanSendConnection, in every reachable state and for every configured    *)
(* daily_connections: both decisions use the same limit.                   *)

C30_SameLimit ==
    ~cfg.BusinessHoursOnly =>
        /\ ~GetAutomationState(TRUE).err
        /\ GetAutomationState(TRUE).can_send_more = CanSendConnection(TRUE)

====
